---------------------------- MODULE Spec2Model ----------------------------
(***************************************************************************)
(* A model of drivers/mtd/nand/raw/davinci_nand.c, the NAND flash          *)
(* controller driver of the DaVinci family.                                *)
(*                                                                         *)
(* The driver is modelled as five small machines that share this module:   *)
(*   Spec      probe / attach_chip / remove over several driver instances  *)
(*   SpecEcc1  the 1-bit (Hamming) ECC calculate / correct functions       *)
(*   SpecEcc4  the 4-bit ECC engine: hwctl, calculate, correct             *)
(*   SpecOob   the four OOB layout functions                               *)
(*   SpecOp    exec_op, one instruction per step                           *)
(* Each specification moves only its own variables and leaves the others   *)
(* at their initial values.                                                *)
(***************************************************************************)
EXTENDS Integers, Sequences, FiniteSets, TLC

(***************************************************************************)
(* Errno values (include/uapi/asm-generic/errno-base.h, errno.h).          *)
(***************************************************************************)
EIO == 5
ENOMEM == 12
EBUSY == 16
ENODEV == 19
EINVAL == 22
ERANGE == 34
EBADMSG == 74
EADDRNOTAVAIL == 99
ETIMEDOUT == 110

(***************************************************************************)
(* C integer operators on non-negative values below 2^31.                  *)
(***************************************************************************)
RECURSIVE BitAnd(_, _)
BitAnd(a, b) ==
    IF a = 0 \/ b = 0 THEN 0
    ELSE (a % 2) * (b % 2) + 2 * BitAnd(a \div 2, b \div 2)

RECURSIVE BitOr(_, _)
BitOr(a, b) ==
    IF a = 0 THEN b
    ELSE IF b = 0 THEN a
    ELSE (IF a % 2 = 1 \/ b % 2 = 1 THEN 1 ELSE 0)
         + 2 * BitOr(a \div 2, b \div 2)

RECURSIVE BitXor(_, _)
BitXor(a, b) ==
    IF a = 0 THEN b
    ELSE IF b = 0 THEN a
    ELSE ((a + b) % 2) + 2 * BitXor(a \div 2, b \div 2)

Shr(a, n) == a \div (2 ^ n)

\* a << n in a 32-bit word whose result stays below 2^31
Shl(a, n) == a * (2 ^ n)

BIT(n) == 2 ^ n

\* (u_char) x
U8(x) == x % 256

(***************************************************************************)
(* State.                                                                  *)
(***************************************************************************)
VARIABLES
    \* ---- 1-bit ECC: one call of nand_davinci_correct_1bit -------------
    dat,            \* the data buffer, bytes 0 .. ecc.size - 1
    dat_in,         \* the buffer as it was handed to the call
    read_ecc,       \* the three ECC bytes read from the OOB
    calc_ecc,       \* the three ECC bytes computed for the data read
    ecc_size,       \* chip->ecc.size
    f1ecc,          \* the NANDFnECC register of the chipselect
    ret1,           \* the return value of the call
    pc1             \* "calc" -> "call" -> "done"

vars1 == <<dat, dat_in, read_ecc, calc_ecc, ecc_size, f1ecc, ret1, pc1>>

VARIABLES
    \* ---- OOB layout: the mtd_ooblayout_ops of a chip using 4-bit ECC --
    mtd,            \* [writesize, oobsize] of the chip
    ecc_total,      \* nand->ecc.ctx.total
    oob_fn,         \* the layout function called last, "none" at first
    oob_section,    \* its section argument
    oob_ret,        \* its return value
    oobregion       \* *oobregion, [offset, length]

varsOob == <<mtd, ecc_total, oob_fn, oob_section, oob_ret, oobregion>>

VARIABLES
    \* ---- 4-bit ECC: the engine and the calls chip->ecc makes on it -----
    hwctl_mode,     \* the mode of the last hwctl() call, -1 before any
    is_readmode,    \* info->is_readmode
    core_chipsel,   \* info->core_chipsel of the device using the engine
    nandfcr,        \* the NANDFCR register
    ecc_reg,        \* NAND_4BIT_ECC1..4 as calculate() last read them to pack
    ecc_code,       \* the ten ECC bytes of a chunk
    code_odd,       \* 0x01 & (uintptr_t)ecc_code
    raw_ecc,        \* raw_ecc[] of the last calculate that packed ecc_code
    \* the call of correct() in progress or returned last; forgotten when
    \* the next call of the engine begins
    ecc_load,       \* the values written to NAND_4BIT_ECC_LOAD, in order
    data,           \* the 512 data bytes handed to correct()
    ecc_state,      \* ECC_STATE as the wait loop last read it
    seen_busy,      \* ECC_STATE was read at 4 or more since the start bit
    timed_out,      \* the wait loop ended on its deadline, ECC_STATE < 4
    fsr,            \* NANDFSR as the polling loop last read it
    err_reg,        \* [add1, add2, val1, val2]: ERR_ADD1/2, ERRVAL1/2 as read
    last4,          \* the call that returned last: "none", "hwctl", ...
    ret4,           \* its return value
    pc4             \* "idle", or the place correct() has reached

vars4 == <<hwctl_mode, is_readmode, core_chipsel, nandfcr, ecc_reg,
           ecc_code, code_odd, raw_ecc, ecc_load, data, ecc_state,
           seen_busy, timed_out, fsr, err_reg, last4, ret4, pc4>>

VARIABLES
    \* ---- the driver and the platform devices bound to it ---------------
    config_of,      \* the driver is built with CONFIG_OF
    ecc4_busy,      \* static bool ecc4_busy
    devs,           \* slot -> the device bound there, NULL when none is
    call            \* the last probe or remove: arguments and outcome

varsDrv == <<config_of, ecc4_busy, devs, call>>

\* the variables of the 4-bit engine but NANDFCR, which probe writes too
vars4x == <<hwctl_mode, is_readmode, core_chipsel, ecc_reg, ecc_code,
            code_odd, raw_ecc, ecc_load, data, ecc_state, seen_busy,
            timed_out, fsr, err_reg, last4, ret4, pc4>>

VARIABLES
    \* ---- davinci_nand_exec_op on one chip -------------------------------
    op_pdata,       \* the platform data the chip was probed with
    nand_info,      \* struct davinci_nand_info of the chip
    nand_op,        \* the operation exec_op was called with, NoOp if none
    instr_i,        \* exec_op's loop index i, counted from 1
    pc_op,          \* "idle", "run" (inside the loop) or "done" (returned)
    ret_op,         \* exec_op's return value
    executed,       \* indices of the instructions exec_instr was called on
    failed,         \* index of the instruction exec_instr failed on, or 0
    io              \* the bus accesses of this call, in order

varsOp == <<op_pdata, nand_info, nand_op, instr_i, pc_op, ret_op, executed,
            failed, io>>

\*FRAMES-BEGIN
vars == <<vars1, varsOob, vars4, varsDrv, varsOp>>

\* what the actions of one machine leave alone
Not1 == <<varsOob, vars4, varsDrv, varsOp>>
NotOob == <<vars1, vars4, varsDrv, varsOp>>
Not4 == <<vars1, varsOob, varsDrv, varsOp>>
NotDrv == <<vars1, varsOob, vars4x, varsOp>>
NotOp == <<vars1, varsOob, vars4, varsDrv>>
\*FRAMES-END

(***************************************************************************)
(* 1-bit hardware ECC.                                                     *)
(***************************************************************************)

\* ~ecc24, as far as the three (u_char) casts that follow can see it
Not24(x) == (2 ^ 24 - 1) - (x % (2 ^ 24))

\* Read hardware ECC value and pack into three bytes; ecc_val is the value
\* of NANDFnECC.  The result is ecc_code[0..2].
nand_davinci_calculate_1bit(ecc_val) ==
    LET ecc24 == BitOr(BitAnd(ecc_val, 4095),
                       Shr(BitAnd(ecc_val, 4095 * 65536), 4))
        inv == Not24(ecc24)
    IN  <<U8(inv), U8(Shr(inv, 8)), U8(Shr(inv, 16))>>

\* correct_1bit taking the bit number from the wrong bits of the difference
correct_1bit_wrong_bit(d, r, c, size) ==
    LET eccNand == BitOr(r[1], BitOr(Shl(r[2], 8), Shl(r[3], 16)))
        eccCalc == BitOr(c[1], BitOr(Shl(c[2], 8), Shl(c[3], 16)))
        diff == BitXor(eccCalc, eccNand)
    IN  IF diff # 0
        THEN IF BitAnd(BitXor(Shr(diff, 12), diff), 4095) = 4095
             THEN IF Shr(diff, 12 + 3) < size
                  THEN [ret |-> 1,
                        dat |-> [d EXCEPT ![Shr(diff, 12 + 3)] =
                                   BitXor(@, BIT(BitAnd(diff, 7)))]]
                  ELSE [ret |-> -EBADMSG, dat |-> d]
             ELSE IF BitAnd(diff, diff - 1) = 0
                  THEN [ret |-> 1, dat |-> d]
                  ELSE [ret |-> -EBADMSG, dat |-> d]
        ELSE [ret |-> 0, dat |-> d]

\* The result is [ret, dat]: the return value and the data buffer after
\* the call.  d is the buffer, r and c are read_ecc and calc_ecc, size is
\* chip->ecc.size.
nand_davinci_correct_1bit(d, r, c, size) ==
    LET eccNand == BitOr(r[1], BitOr(Shl(r[2], 8), Shl(r[3], 16)))
        eccCalc == BitOr(c[1], BitOr(Shl(c[2], 8), Shl(c[3], 16)))
        diff == BitXor(eccCalc, eccNand)
    IN  IF diff # 0
        THEN IF BitAnd(BitXor(Shr(diff, 12), diff), 4095) = 4095
             THEN IF Shr(diff, 12 + 3) < size
                  THEN [ret |-> 1,
                        dat |-> [d EXCEPT ![Shr(diff, 12 + 3)] =
                                   BitXor(@, BIT(BitAnd(Shr(diff, 12), 7)))]]
                  ELSE [ret |-> -EBADMSG, dat |-> d]
             ELSE IF BitAnd(diff, diff - 1) = 0
                  THEN [ret |-> 1, dat |-> d]
                  ELSE [ret |-> -EBADMSG, dat |-> d]
        ELSE [ret |-> 0, dat |-> d]

(***************************************************************************)
(* SpecEcc1: a page chunk is read, the hardware ECC of the data read is    *)
(* packed by calculate(), and correct() compares it with the ECC bytes     *)
(* read from the OOB.                                                      *)
(***************************************************************************)

\* chip->ecc.size: attach_chip sets 512; 256 makes the range check of
\* correct() decide.
EccSizes == {256, 512}

\* Contents of the data buffer handed to correct().
DataPattern(size) == {[i \in 0 .. size - 1 |-> (i * 7 + 3) % 256]}

\* Values of the NANDFnECC register: 12 bits of parity in each half word,
\* the other bits as the hardware leaves them.
F1EccVals == {2730 * 65536 + 1365, 32767 * 65536 + 61447}

\* ecc_code[0..2] as the 24-bit value the driver reads from it
Ecc24(b) == b[1] + 256 * b[2] + 65536 * b[3]
Bytes3(x) == <<x % 256, (x \div 256) % 256, (x \div 65536) % 256>>

\* The data bytes in which a single-bit error is tried: both ends of the
\* chunk and both sides of byte 256.
ErrBytes == (0 .. 7) \cup (248 .. 263) \cup (504 .. 511)

\* The differences between stored and computed ECC that are tried: none,
\* a single-bit data error in every bit of the bytes above (upper half =
\* complement of lower half), every single-bit ECC error, and multi-bit
\* errors of several shapes.
DiffVals ==
    {0}
    \cup {h * 4096 + (4095 - h) : h \in {i * 8 + b : i \in ErrBytes, b \in 0 .. 7}}
    \cup {2 ^ k : k \in 0 .. 23}
    \cup {h * 4096 + h : h \in {1, 5, 2048, 4095}}
    \cup {(h * 4096 + (4095 - h)) + 1 : h \in {1, 8, 4094}}
    \cup {3, 4096 + 1, 4097 * 2048, 4095, 4095 * 4096 + 4094}

Init1 ==
    /\ ecc_size \in EccSizes
    /\ dat \in DataPattern(ecc_size)
    /\ dat_in = dat
    /\ f1ecc \in F1EccVals
    /\ calc_ecc = <<0, 0, 0>>
    /\ \E diff \in DiffVals :
          read_ecc = Bytes3(BitXor(
                        Ecc24(nand_davinci_calculate_1bit(f1ecc)), diff))
    /\ ret1 = 0
    /\ pc1 = "calc"

\* chip->ecc.calculate(): the ECC of the data just read
Calculate1 ==
    /\ pc1 = "calc"
    /\ calc_ecc' = nand_davinci_calculate_1bit(f1ecc)
    /\ pc1' = "call"
    /\ UNCHANGED <<dat, dat_in, read_ecc, ecc_size, f1ecc, ret1>>
    /\ UNCHANGED Not1

\* chip->ecc.correct()
Correct1 ==
    /\ pc1 = "call"
    /\ LET r == nand_davinci_correct_1bit(dat, read_ecc, calc_ecc, ecc_size)
       IN  /\ dat' = r.dat
           /\ ret1' = r.ret
    /\ pc1' = "done"
    /\ UNCHANGED <<dat_in, read_ecc, calc_ecc, ecc_size, f1ecc>>
    /\ UNCHANGED Not1

Next1 == Calculate1 \/ Correct1

(***************************************************************************)
(* C3.  The classification is stated on the set of bit positions in which  *)
(* the stored and the computed ECC differ.                                 *)
(***************************************************************************)
BitsOf(x) == {k \in 0 .. 23 : (x \div (2 ^ k)) % 2 = 1}

\* the bits set in calc_ecc XOR read_ecc
DiffBits ==
    LET a == BitsOf(Ecc24(calc_ecc))
        b == BitsOf(Ecc24(read_ecc))
    IN  (a \ b) \cup (b \ a)

\* upper and lower 12 bits are bitwise complements
Complementary(D) == \A k \in 0 .. 11 : (k \in D) # (k + 12 \in D)

\* diff >> 15 and (diff >> 12) & 7
ByteOf(D) ==
    CHOOSE n \in 0 .. 511 :
        \A j \in 0 .. 8 : ((n \div (2 ^ j)) % 2 = 1) <=> (j + 15 \in D)
BitOf(D) ==
    CHOOSE n \in 0 .. 7 :
        \A j \in 0 .. 2 : ((n \div (2 ^ j)) % 2 = 1) <=> (j + 12 \in D)

\* byte v with bit b flipped
Flip(v, b) == IF (v \div (2 ^ b)) % 2 = 1 THEN v - 2 ^ b ELSE v + 2 ^ b

\* C3: nand_davinci_correct_1bit returns 0 and leaves the data alone when
\* the two ECCs agree; when the halves of the difference are complements
\* it flips bit (diff >> 12) & 7 of byte diff >> 15 and returns 1, or
\* returns -EBADMSG and leaves the data alone when that byte is outside
\* the chunk; when one bit differs it returns 1 and leaves the data alone;
\* otherwise it returns -EBADMSG and leaves the data alone.
C3_Correct1bitClassifies ==
    pc1 = "done" =>
        LET D == DiffBits
        IN  IF D = {}
            THEN ret1 = 0 /\ dat = dat_in
            ELSE IF Complementary(D)
            THEN IF ByteOf(D) < ecc_size
                 THEN /\ ret1 = 1
                      /\ dat = [dat_in EXCEPT ![ByteOf(D)] =
                                    Flip(dat_in[ByteOf(D)], BitOf(D))]
                 ELSE ret1 = -EBADMSG /\ dat = dat_in
            ELSE IF Cardinality(D) = 1
            THEN ret1 = 1 /\ dat = dat_in
            ELSE ret1 = -EBADMSG /\ dat = dat_in

\* a single-bit data error was corrected in place
C3_Witness ==
    /\ pc1 = "done"
    /\ ret1 = 1
    /\ Complementary(DiffBits)
    /\ \E i \in DOMAIN dat : dat[i] # dat_in[i]

(***************************************************************************)
(* OOB layouts for 4-bit ECC.  Each function gives [ret, oobregion]; reg   *)
(* is *oobregion before the call, which an error return leaves alone.      *)
(***************************************************************************)
\* small_ecc with its second region starting on the bad block marker
small_ecc_over_marker(m, section, reg) ==
    IF section > 2 THEN [ret |-> -ERANGE, oobregion |-> reg]
    ELSE IF section = 0
    THEN [ret |-> 0, oobregion |-> [offset |-> 0, length |-> 5]]
    ELSE IF section = 1
    THEN [ret |-> 0, oobregion |-> [offset |-> 5, length |-> 2]]
    ELSE [ret |-> 0, oobregion |-> [offset |-> 13, length |-> 3]]

hwecc4_ooblayout_small_ecc(m, section, reg) ==
    IF section > 2 THEN [ret |-> -ERANGE, oobregion |-> reg]
    ELSE IF section = 0
    THEN [ret |-> 0, oobregion |-> [offset |-> 0, length |-> 5]]
    ELSE IF section = 1
    THEN [ret |-> 0, oobregion |-> [offset |-> 6, length |-> 2]]
    ELSE [ret |-> 0, oobregion |-> [offset |-> 13, length |-> 3]]

hwecc4_ooblayout_small_free(m, section, reg) ==
    IF section > 1 THEN [ret |-> -ERANGE, oobregion |-> reg]
    ELSE IF section = 0
    THEN [ret |-> 0, oobregion |-> [offset |-> 8, length |-> 5]]
    ELSE [ret |-> 0,
          oobregion |-> [offset |-> 16, length |-> m.oobsize - 16]]

hwecc4_ooblayout_large_ecc(total_ecc_bytes, section, reg) ==
    LET nregions == total_ecc_bytes \div 10
    IN  IF section >= nregions THEN [ret |-> -ERANGE, oobregion |-> reg]
        ELSE [ret |-> 0,
              oobregion |-> [offset |-> (section * 16) + 6, length |-> 10]]

\* large_free giving one free region per chunk
large_free_one_too_many(total_ecc_bytes, section, reg) ==
    LET nregions == total_ecc_bytes \div 10
    IN  IF section >= nregions
        THEN [ret |-> -ERANGE, oobregion |-> reg]
        ELSE [ret |-> 0,
              oobregion |-> [offset |-> ((section + 1) * 16), length |-> 6]]

hwecc4_ooblayout_large_free(total_ecc_bytes, section, reg) ==
    LET nregions == total_ecc_bytes \div 10
    IN  IF section >= (nregions - 1)
        THEN [ret |-> -ERANGE, oobregion |-> reg]
        ELSE [ret |-> 0,
              oobregion |-> [offset |-> ((section + 1) * 16), length |-> 6]]

(***************************************************************************)
(* SpecOob: the MTD core asks an attached chip for its OOB regions.        *)
(***************************************************************************)

\* the highest section number asked for
MaxSection == 9

\* Chips on which attach_chip installs one of the two layouts: one 512-byte
\* chunk with at least 16 OOB bytes, or 4 or 8 chunks.
SmallChips == {[writesize |-> 512, oobsize |-> o] : o \in {16, 17, 32}}
LargeChips == {[writesize |-> 2048, oobsize |-> 64],
               [writesize |-> 4096, oobsize |-> 128],
               [writesize |-> 4096, oobsize |-> 224]}

IsSmall(m) == m.writesize \div 512 = 1

InitOob ==
    /\ mtd \in SmallChips \cup LargeChips
    \* nand_scan_tail: ecc->total = ecc->steps * ecc->bytes; 0 before it
    /\ ecc_total \in {0, (mtd.writesize \div 512) * 10}
    /\ oob_fn = "none"
    /\ oob_section = 0
    /\ oob_ret = 0
    /\ oobregion = [offset |-> 0, length |-> 0]

OobCall(fn, section, r) ==
    /\ oob_fn' = fn
    /\ oob_section' = section
    /\ oob_ret' = r.ret
    /\ oobregion' = r.oobregion
    /\ UNCHANGED <<mtd, ecc_total>>
    /\ UNCHANGED NotOob

SmallEcc ==
    /\ IsSmall(mtd)
    /\ \E s \in 0 .. MaxSection :
          OobCall("small_ecc", s, hwecc4_ooblayout_small_ecc(mtd, s, oobregion))

SmallFree ==
    /\ IsSmall(mtd)
    /\ \E s \in 0 .. MaxSection :
          OobCall("small_free", s,
                  hwecc4_ooblayout_small_free(mtd, s, oobregion))

LargeEcc ==
    /\ ~IsSmall(mtd)
    /\ \E s \in 0 .. MaxSection :
          OobCall("large_ecc", s,
                  hwecc4_ooblayout_large_ecc(ecc_total, s, oobregion))

LargeFree ==
    /\ ~IsSmall(mtd)
    /\ \E s \in 0 .. MaxSection :
          OobCall("large_free", s,
                  hwecc4_ooblayout_large_free(ecc_total, s, oobregion))

NextOob == SmallEcc \/ SmallFree \/ LargeEcc \/ LargeFree

(***************************************************************************)
(* C7, C8.  A region is the set of OOB bytes it covers.                    *)
(***************************************************************************)
Bytes(reg) == reg.offset .. (reg.offset + reg.length - 1)

NoRegion == [offset |-> 0, length |-> 0]

\* the regions a layout function yields over all sections asked for
Regions(F(_, _, _), arg) ==
    {F(arg, s, NoRegion).oobregion :
        s \in {t \in 0 .. MaxSection : F(arg, t, NoRegion).ret = 0}}

\* the region the small layout is said to give for a section, <<>> if none
SmallEccTable(s) ==
    IF s = 0 THEN <<0, 5>> ELSE IF s = 1 THEN <<6, 2>>
    ELSE IF s = 2 THEN <<13, 3>> ELSE <<>>
SmallFreeTable(s, oobsize) ==
    IF s = 0 THEN <<8, 5>> ELSE IF s = 1 THEN <<16, oobsize - 16>> ELSE <<>>

\* what the last call returned is what the table t says
Answered(t) ==
    IF t = <<>> THEN oob_ret = -ERANGE
    ELSE oob_ret = 0 /\ oobregion = [offset |-> t[1], length |-> t[2]]

RECURSIVE SumLengths(_)
SumLengths(S) ==
    IF S = {} THEN 0
    ELSE LET r == CHOOSE x \in S : TRUE IN r.length + SumLengths(S \ {r})

\* C7: the small layout answers (0,5), (6,2), (13,3) for ECC sections 0..2
\* and (8,5), (16, oobsize-16) for free sections 0..1, -ERANGE above; the
\* ECC regions hold ten bytes, are pairwise disjoint and disjoint from the
\* free regions, and byte 5 is in no region.
C7_SmallLayout ==
    IsSmall(mtd) =>
        LET E == Regions(hwecc4_ooblayout_small_ecc, mtd)
            F == Regions(hwecc4_ooblayout_small_free, mtd)
        IN  /\ oob_fn = "small_ecc" => Answered(SmallEccTable(oob_section))
            /\ oob_fn = "small_free" =>
                   Answered(SmallFreeTable(oob_section, mtd.oobsize))
            /\ Cardinality(E) = 3 /\ SumLengths(E) = 10
            /\ \A a, b \in E : a # b => Bytes(a) \cap Bytes(b) = {}
            /\ \A a \in E, b \in F : Bytes(a) \cap Bytes(b) = {}
            /\ \A a \in E \cup F : 5 \notin Bytes(a)

C7_Witness ==
    /\ IsSmall(mtd)
    /\ oob_fn = "small_free" /\ oob_section = 1 /\ oob_ret = 0
    /\ oobregion.length > 0

\* C8: with n = total / 10, the large layout answers (16 s + 6, 10) for ECC
\* section s < n and (16 (s + 1), 6) for free section s < n - 1, -ERANGE
\* otherwise; no ECC region overlaps another region, bytes 0..5 are in no
\* region, and every region ends below 16 n.
C8_LargeLayout ==
    ~IsSmall(mtd) =>
        LET n == ecc_total \div 10
            E == Regions(hwecc4_ooblayout_large_ecc, ecc_total)
            F == Regions(hwecc4_ooblayout_large_free, ecc_total)
        IN  /\ oob_fn = "large_ecc" =>
                   Answered(IF oob_section < n
                            THEN <<16 * oob_section + 6, 10>> ELSE <<>>)
            /\ oob_fn = "large_free" =>
                   Answered(IF oob_section < n - 1
                            THEN <<16 * (oob_section + 1), 6>> ELSE <<>>)
            /\ Cardinality(E) = (IF n <= MaxSection + 1 THEN n
                                 ELSE MaxSection + 1)
            /\ \A a, b \in E : a # b => Bytes(a) \cap Bytes(b) = {}
            /\ \A a \in E, b \in F : Bytes(a) \cap Bytes(b) = {}
            /\ \A a \in E \cup F :
                   /\ Bytes(a) \cap (0 .. 5) = {}
                   /\ \A x \in Bytes(a) : x < 16 * n

C8_Witness ==
    /\ ~IsSmall(mtd)
    /\ ecc_total = 80
    /\ oob_fn = "large_free" /\ oob_section = 6 /\ oob_ret = 0

(***************************************************************************)
(* 4-bit hardware ECC.                                                     *)
(***************************************************************************)
NAND_ECC_READ == 0
NAND_ECC_WRITE == 1
NAND_ECC_READSYN == 2

\* const u32 mask = 0x03ff03ff
Mask4 == 1023 * 65536 + 1023

\* val & ~m
AndNot(val, m) == val - BitAnd(val, m)

\* The value nand_davinci_hwctl_4bit writes to NANDFCR, given the one it
\* read there.
hwctl_4bit_fcr(val, chipsel) ==
    BitOr(AndNot(val, Shl(3, 4)), BitOr(Shl(chipsel, 4), BIT(12)))

\* code[] of nand_davinci_readecc_4bit, given the four registers
nand_davinci_readecc_4bit(regs) ==
    [i \in 1 .. 4 |-> BitAnd(regs[i], Mask4)]

\* the packing loop taking the upper value of p[0] two bits too high
Pack5HighShift(p0, p1) ==
    << BitAnd(p0, 255),
       BitOr(BitAnd(Shr(p0, 8), 3), BitAnd(Shr(p0, 16), 252)),
       BitOr(BitAnd(Shr(p0, 22), 15), BitAnd(Shl(p1, 4), 240)),
       BitOr(BitAnd(Shr(p1, 4), 63), BitAnd(Shr(p1, 10), 192)),
       BitAnd(Shr(p1, 18), 255) >>

\* one pass of the packing loop: the five bytes made of p[0] and p[1]
Pack5(p0, p1) ==
    << BitAnd(p0, 255),
       BitOr(BitAnd(Shr(p0, 8), 3), BitAnd(Shr(p0, 14), 252)),
       BitOr(BitAnd(Shr(p0, 22), 15), BitAnd(Shl(p1, 4), 240)),
       BitOr(BitAnd(Shr(p1, 4), 63), BitAnd(Shr(p1, 10), 192)),
       BitAnd(Shr(p1, 18), 255) >>

\* The ten bytes nand_davinci_calculate_4bit stores for raw_ecc[0..3].
Pack10(raw) == Pack5(raw[1], raw[2]) \o Pack5(raw[3], raw[4])

\* ecc16[k] of the ten bytes, k = 0..4, on a little-endian CPU
Ecc16(code, k) == BitOr(code[2 * k + 1], Shl(code[2 * k + 2], 8))

\* ecc10[0..7] as nand_davinci_correct_4bit unpacks them (a sequence, so
\* ecc10[i] of the code is Unpack10(code)[i + 1])
Unpack10(code) ==
    LET e0 == Ecc16(code, 0)
        e1 == Ecc16(code, 1)
        e2 == Ecc16(code, 2)
        e3 == Ecc16(code, 3)
        e4 == Ecc16(code, 4)
    IN  << BitAnd(Shr(e0, 0), 1023),
           BitOr(BitAnd(Shr(e0, 10), 63), BitAnd(Shl(e1, 6), 960)),
           BitAnd(Shr(e1, 4), 1023),
           BitOr(BitAnd(Shr(e1, 14), 3), BitAnd(Shl(e2, 2), 1020)),
           BitOr(Shr(e2, 8), BitAnd(Shl(e3, 8), 768)),
           BitAnd(Shr(e3, 2), 1023),
           BitOr(BitAnd(Shr(e3, 12), 15), BitAnd(Shl(e4, 4), 1008)),
           BitAnd(Shr(e4, 6), 1023) >>

\* for (i = 7; i >= 0; i--) writel(ECC_LOAD, ecc10[i])
LoadOrder(ecc10) == [i \in 1 .. 8 |-> ecc10[9 - i]]

\* (fsr >> 8) & 0x0f
EccStateOf(f) == BitAnd(Shr(f, 8), 15)

\* the loop reading the second register pair from the second error on
RECURSIVE CorrectLoopEarlyPair(_, _, _, _, _)
CorrectLoopEarlyPair(i, num_errors, regs, d, n) ==
    IF i >= num_errors THEN [corrected |-> n, data |-> d]
    ELSE LET a0 == IF i >= 1 THEN regs.add2 ELSE regs.add1
             v0 == IF i >= 1 THEN regs.val2 ELSE regs.val1
             a1 == IF BitAnd(i, 1) # 0 THEN Shr(a0, 16) ELSE a0
             v1 == IF BitAnd(i, 1) # 0 THEN Shr(v0, 16) ELSE v0
             error_address == (512 + 7) - BitAnd(a1, 1023)
         IN  IF error_address < 512
             THEN CorrectLoopEarlyPair(i + 1, num_errors, regs,
                              [d EXCEPT ![error_address] =
                                   U8(BitXor(@, U8(v1)))],
                              n + 1)
             ELSE CorrectLoopEarlyPair(i + 1, num_errors, regs, d, n)

\* The loop at "correct:": [corrected, data] after errors i .. num_errors-1
\* have been handled, d and n being the data and the count before them.
RECURSIVE CorrectLoop(_, _, _, _, _)
CorrectLoop(i, num_errors, regs, d, n) ==
    IF i >= num_errors THEN [corrected |-> n, data |-> d]
    ELSE LET a0 == IF i > 1 THEN regs.add2 ELSE regs.add1
             v0 == IF i > 1 THEN regs.val2 ELSE regs.val1
             a1 == IF BitAnd(i, 1) # 0 THEN Shr(a0, 16) ELSE a0
             v1 == IF BitAnd(i, 1) # 0 THEN Shr(v0, 16) ELSE v0
             error_address == (512 + 7) - BitAnd(a1, 1023)
         IN  IF error_address < 512
             THEN CorrectLoop(i + 1, num_errors, regs,
                              [d EXCEPT ![error_address] =
                                   U8(BitXor(@, U8(v1)))],
                              n + 1)
             ELSE CorrectLoop(i + 1, num_errors, regs, d, n)

(***************************************************************************)
(* SpecEcc4: the NAND core drives the engine of the one device that holds  *)
(* it.  The registers are the hardware's: what a read returns is chosen    *)
(* when the driver reads.                                                  *)
(***************************************************************************)

\* one register holding the 10-bit values lo and hi
Reg(lo, hi) == lo + 65536 * hi

\* Contents of NAND_4BIT_ECC1..4: all clear, all set, one 10-bit value set
\* at a time, one bit of every value set at a time, eight different
\* values, and bits outside the mask.
EccRegVals ==
    {<<0, 0, 0, 0>>,
     <<Mask4, Mask4, Mask4, Mask4>>,
     <<Reg(1, 2), Reg(3, 4), Reg(517, 678), Reg(1000, 1023)>>,
     <<Reg(682 + 1024, 341 + 31744), Reg(341 + 64512, 682),
       Reg(15, 960), Reg(992 + 2048, 31 + 16384)>>}
    \cup {[r \in 1 .. 4 |->
             Reg(IF 2 * r - 1 = v THEN 1023 ELSE 0,
                 IF 2 * r = v THEN 1023 ELSE 0)] : v \in 1 .. 8}
    \cup {[r \in 1 .. 4 |-> Reg(2 ^ k, 2 ^ k)] : k \in 0 .. 9}

\* Ten bytes read from the OOB before any ECC was computed here.
OobCodes == {[i \in 1 .. 10 |-> 255], [i \in 1 .. 10 |-> (37 * i) % 256]}

\* The registers read back as syndrome after the ECC was loaded.
SyndromeVals == {<<0, 0, 0, 0>>, <<0, 0, Reg(0, 1), 0>>,
                 <<64512, 0, 0, 0>>}

\* ECC_STATE values sampled in the wait loop
WaitStates == {0, 3, 4}

\* NANDFSR as read in the polling loop: ECC_STATE in bits 8..11, the
\* number of errors minus one in bits 16..17, the ready bit
FsrVals == {s * 256 + n * 65536 + 1 : s \in {0, 1, 2, 3, 4}, n \in 0 .. 3}

\* The highest error address the engine reports: it locates errors in a
\* codeword of 512 data bytes and 8 more, which the driver numbers
\* (512 + 7) - address.
MaxErrAddr == 519

\* an error address register holding two addresses of the codeword
AddrReg(P) ==
    {Reg(p[1], p[2]) : p \in {q \in P : q[1] <= MaxErrAddr /\ q[2] <= MaxErrAddr}}

\* ERR_ADD1/2 and ERRVAL1/2; the addresses are those of data bytes 0, 256
\* and 511 and of ECC bytes, and one pair names the same byte twice.
ErrAdd1Vals == AddrReg({<<519, 8>>, <<7, 263>>, <<8, 7>>, <<263, 263>>})
ErrAdd2Vals == AddrReg({<<0, 519>>, <<519, 0>>, <<12, 500>>})
ErrVal1Vals == {Reg(1 + 768, 677)}
ErrVal2Vals == {Reg(128, 1023)}

\* the data of a chunk as read from the flash
DataIn4 == [i \in 0 .. 511 |-> (i * 7 + 3) % 256]

NoErrReg == [add1 |-> 0, add2 |-> 0, val1 |-> 0, val2 |-> 0]

Init4 ==
    /\ hwctl_mode = -1
    /\ is_readmode = FALSE
    /\ core_chipsel \in {0, 2}
    \* probe has put the chipselect into NAND mode; an earlier user of the
    \* engine may have left its chipselect in bits 4..5
    /\ nandfcr = BIT(core_chipsel) + (IF core_chipsel = 0 THEN 48 ELSE 0)
    /\ ecc_reg = <<0, 0, 0, 0>>
    /\ ecc_code \in OobCodes
    /\ code_odd = 0
    /\ raw_ecc = <<>>
    /\ ecc_load = <<>>
    /\ data = <<>>
    /\ ecc_state = 0
    /\ seen_busy = FALSE
    /\ timed_out = FALSE
    /\ fsr = 0
    /\ err_reg = NoErrReg
    /\ last4 = "none"
    /\ ret4 = 0
    /\ pc4 = "idle"

\* the call of correct() that returned last is forgotten
Forget4 ==
    /\ ecc_load' = <<>>
    /\ data' = <<>>
    /\ code_odd' = 0
    /\ ecc_state' = 0
    /\ seen_busy' = FALSE
    /\ timed_out' = FALSE
    /\ fsr' = 0
    /\ err_reg' = NoErrReg

\* hwctl() of a mutated driver: it takes NAND_ECC_READSYN for a read
Hwctl4_readsyn_is_read ==
    /\ pc4 = "idle"
    /\ Forget4
    /\ \E mode \in {NAND_ECC_READ, NAND_ECC_WRITE, NAND_ECC_READSYN} :
          /\ nandfcr' = hwctl_4bit_fcr(nandfcr, core_chipsel)
          /\ is_readmode' = (mode # NAND_ECC_WRITE)
          /\ hwctl_mode' = mode
    /\ last4' = "hwctl"
    /\ ret4' = 0
    /\ UNCHANGED <<core_chipsel, ecc_reg, ecc_code, raw_ecc, pc4>>
    /\ UNCHANGED Not4

Hwctl4 ==
    /\ pc4 = "idle"
    /\ Forget4
    /\ \E mode \in {NAND_ECC_READ, NAND_ECC_WRITE, NAND_ECC_READSYN} :
          /\ nandfcr' = hwctl_4bit_fcr(nandfcr, core_chipsel)
          /\ is_readmode' = (mode = NAND_ECC_READ)
          /\ hwctl_mode' = mode
    /\ last4' = "hwctl"
    /\ ret4' = 0
    /\ UNCHANGED <<core_chipsel, ecc_reg, ecc_code, raw_ecc, pc4>>
    /\ UNCHANGED Not4

\* nand_davinci_calculate_4bit: a dummy read after a read, else the
\* registers packed into ecc_code
Calculate4 ==
    /\ pc4 = "idle"
    /\ Forget4
    /\ IF is_readmode
       THEN UNCHANGED <<ecc_reg, ecc_code, raw_ecc>>
       ELSE \E regs \in EccRegVals :
               /\ ecc_reg' = regs
               /\ raw_ecc' = nand_davinci_readecc_4bit(regs)
               /\ ecc_code' = Pack10(nand_davinci_readecc_4bit(regs))
    /\ last4' = "calculate"
    /\ ret4' = 0
    /\ UNCHANGED <<hwctl_mode, is_readmode, core_chipsel, nandfcr, pc4>>
    /\ UNCHANGED Not4

Return4(r) ==
    /\ last4' = "correct"
    /\ ret4' = r
    /\ pc4' = "idle"

\* nand_davinci_correct_4bit up to the start of the address calculation.
\* The read paths of the NAND core call it for a chunk right after
\* hwctl(NAND_ECC_READ), the data transfer and calculate().
Correct4Start ==
    /\ pc4 = "idle"
    /\ is_readmode /\ last4 = "calculate"
    /\ data' = DataIn4
    /\ err_reg' = NoErrReg
    /\ ecc_state' = 0
    /\ seen_busy' = FALSE
    /\ timed_out' = FALSE
    /\ fsr' = 0
    /\ \E odd \in {0, 1} :
          /\ code_odd' = odd
          /\ IF odd # 0
             THEN /\ Return4(-EINVAL)
                  /\ ecc_load' = <<>>
                  /\ UNCHANGED nandfcr
             ELSE /\ ecc_load' = LoadOrder(Unpack10(ecc_code))
                  /\ \E regs \in SyndromeVals :
                        LET syndrome == nand_davinci_readecc_4bit(regs)
                        IN  /\ IF BitOr(BitOr(syndrome[1], syndrome[2]),
                                        BitOr(syndrome[3], syndrome[4])) = 0
                               THEN /\ Return4(0)
                                    /\ UNCHANGED nandfcr
                               ELSE /\ nandfcr' = BitOr(nandfcr, BIT(13))
                                    /\ pc4' = "wait"
                                    /\ UNCHANGED <<last4, ret4>>
    /\ UNCHANGED <<hwctl_mode, is_readmode, core_chipsel, ecc_reg, ecc_code,
                   raw_ecc>>
    /\ UNCHANGED Not4

\* the wait loop of a mutated driver: it delays while ECC_STATE reads less
\* than 3
Correct4Wait_below_3 ==
    /\ pc4 = "wait"
    /\ \E s \in WaitStates, expired \in BOOLEAN :
          /\ IF s < 3 /\ ~expired
             THEN ecc_state' = s /\ pc4' = "wait"
             ELSE ecc_state' = s /\ pc4' = "poll"
          /\ seen_busy' = (seen_busy \/ s >= 4)
          /\ timed_out' = (timed_out \/ (s < 4 /\ expired))
    /\ UNCHANGED <<hwctl_mode, is_readmode, core_chipsel, nandfcr, ecc_reg,
                   ecc_code, code_odd, raw_ecc, ecc_load, data, fsr, err_reg,
                   last4, ret4>>
    /\ UNCHANGED Not4

\* one pass of the do ... while loop that waits for the engine to leave
\* the states below 4; expired is !time_before(jiffies, timeo)
Correct4Wait ==
    /\ pc4 = "wait"
    /\ \E s \in WaitStates, expired \in BOOLEAN :
          /\ IF s < 4 /\ ~expired
             THEN ecc_state' = s /\ pc4' = "wait"
             ELSE ecc_state' = s /\ pc4' = "poll"
          /\ seen_busy' = (seen_busy \/ s >= 4)
          /\ timed_out' = (timed_out \/ (s < 4 /\ expired))
    /\ UNCHANGED <<hwctl_mode, is_readmode, core_chipsel, nandfcr, ecc_reg,
                   ecc_code, code_odd, raw_ecc, ecc_load, data, fsr, err_reg,
                   last4, ret4>>
    /\ UNCHANGED Not4

\* one pass of the for (;;) loop
Correct4Poll ==
    /\ pc4 = "poll"
    /\ \E f \in FsrVals :
          /\ fsr' = f
          /\ seen_busy' = (seen_busy \/ EccStateOf(f) >= 4)
          /\ IF EccStateOf(f) = 0 THEN Return4(0)
             ELSE IF EccStateOf(f) = 1 THEN Return4(-EBADMSG)
             ELSE IF EccStateOf(f) \in {2, 3}
             THEN pc4' = "correct" /\ UNCHANGED <<last4, ret4>>
             ELSE UNCHANGED <<pc4, last4, ret4>>
    /\ UNCHANGED <<hwctl_mode, is_readmode, core_chipsel, nandfcr, ecc_reg,
                   ecc_code, code_odd, raw_ecc, ecc_load, data, ecc_state,
                   timed_out, err_reg>>
    /\ UNCHANGED Not4

\* the loop at "correct:"
Correct4Fix ==
    /\ pc4 = "correct"
    /\ \E a1 \in ErrAdd1Vals, a2 \in ErrAdd2Vals,
          v1 \in ErrVal1Vals, v2 \in ErrVal2Vals :
          LET regs == [add1 |-> a1, add2 |-> a2, val1 |-> v1, val2 |-> v2]
              num_errors == 1 + BitAnd(Shr(fsr, 16), 3)
              r == CorrectLoop(0, num_errors, regs, data, 0)
          IN  /\ err_reg' = regs
              /\ data' = r.data
              /\ Return4(r.corrected)
    /\ UNCHANGED <<hwctl_mode, is_readmode, core_chipsel, nandfcr, ecc_reg,
                   ecc_code, code_odd, raw_ecc, ecc_load, ecc_state,
                   seen_busy, timed_out, fsr>>
    /\ UNCHANGED Not4

Next4 ==
    \/ Hwctl4
    \/ Calculate4
    \/ Correct4Start
    \/ Correct4Wait
    \/ Correct4Poll
    \/ Correct4Fix

(***************************************************************************)
(* C2, C4.                                                                 *)
(***************************************************************************)

\* the i-th 10-bit value (i = 0..7) held in the four ECC registers: the
\* low half of a register is the even value, the high half the odd one
Value10(regs, i) ==
    LET r == regs[(i \div 2) + 1]
    IN  IF i % 2 = 0 THEN r % 1024 ELSE (r \div 65536) % 1024

\* ecc10[i] of the running or last correct(): the driver writes ecc10[7]
\* first and ecc10[0] last
Ecc10(i) == ecc_load[8 - i]

\* C2: once calculate() has packed the ECC registers into ecc_code in
\* write mode, correct() unpacks ecc_code into the same eight 10-bit
\* values, in the same order.
C2_PackUnpackInverse ==
    (raw_ecc # <<>> /\ ecc_load # <<>>) =>
        \A i \in 0 .. 7 : Ecc10(i) = Value10(ecc_reg, i)

\* eight different values went through packing and unpacking
C2_Witness ==
    /\ raw_ecc # <<>> /\ ecc_load # <<>>
    /\ Cardinality({Value10(ecc_reg, i) : i \in 0 .. 7}) = 8
    /\ Ecc10(6) = 1000

\* error i (0..3) as the registers hold it: its raw address and the low
\* byte of its value
RawAddr(i) ==
    LET a == IF i < 2 THEN err_reg.add1 ELSE err_reg.add2
    IN  IF i % 2 = 0 THEN a % 1024 ELSE (a \div 65536) % 1024
ErrByte(i) ==
    LET v == IF i < 2 THEN err_reg.val1 ELSE err_reg.val2
    IN  IF i % 2 = 0 THEN v % 256 ELSE (v \div 65536) % 256

BitAt(v, b) == (v \div (2 ^ b)) % 2

\* correct() has run its correction step and returned
Corrected4 ==
    /\ pc4 = "idle" /\ last4 = "correct"
    /\ (fsr \div 256) % 16 \in {2, 3}

CalculateAfterHwctl ==
    /\ pc4 = "idle" /\ pc4' = "idle"
    /\ last4' = "calculate"
    /\ hwctl_mode # -1

\* the ten bytes are the eight 10-bit values of the registers laid end to
\* end, lowest bit first
PackedFrom(code, regs) ==
    /\ Len(code) = 10
    /\ \A k \in 1 .. 10 : code[k] \in 0 .. 255
    /\ \A j \in 0 .. 79 :
          BitAt(code[(j \div 8) + 1], j % 8)
             = BitAt(Value10(regs, j \div 10), j % 10)

\* what a call of calculate() does, by the mode of the last hwctl()
CalculateByMode ==
    CalculateAfterHwctl =>
        /\ ret4' = 0
        /\ hwctl_mode = NAND_ECC_READ => ecc_code' = ecc_code
        /\ hwctl_mode # NAND_ECC_READ => PackedFrom(ecc_code', ecc_reg')

\* C12: what calculate() does is fixed by the mode of the most recent
\* hwctl(): after NAND_ECC_READ it returns 0 and leaves ecc_code as it is;
\* after any other mode it returns 0 and writes the ten bytes of ecc_code,
\* packed from the four ECC registers masked with 0x03ff03ff.
C12_CalculateFollowsHwctl == [][CalculateByMode]_vars

\* calculate() has packed registers that had bits set outside the mask,
\* after hwctl(NAND_ECC_READSYN)
C12_Witness ==
    /\ pc4 = "idle" /\ last4 = "calculate"
    /\ hwctl_mode = NAND_ECC_READSYN
    /\ ~is_readmode
    /\ ecc_reg[1] % 65536 >= 1024
    /\ PackedFrom(ecc_code, ecc_reg)
    /\ ret4 = 0

\* correct() has taken an ECC_STATE below 4, read in its polling loop, as
\* the outcome of the address calculation
Acted4 ==
    /\ pc4 \in {"correct", "idle"}
    /\ fsr # 0
    /\ (fsr \div 256) % 16 < 4

NULL == [null |-> TRUE]

\* struct davinci_nand_pdata; kzalloc() gives Pdata0
Pdata0 ==
    [null |-> FALSE, mask_ale |-> 0, mask_cle |-> 0, core_chipsel |-> 0,
     mask_chipsel |-> 0, engine_type |-> "INVALID",
     ecc_placement |-> "UNKNOWN", ecc_bits |-> 0, options |-> {}]

\* a C string is the sequence of its characters
Str_none == <<"n", "o", "n", "e">>
Str_soft == <<"s", "o", "f", "t">>
Str_hw == <<"h", "w">>
Str_on_die == <<"o", "n", "-", "d", "i", "e">>

\* !strncmp(lit, str, n), lit being n characters long
StrNEq(lit, str, n) == Len(str) >= n /\ SubSeq(str, 1, n) = lit

\* The engine type the "ti,davinci-ecc-mode" string selects; the four tests
\* are made in this order and the last one that matches wins.
ModeEngine(mode, e0) ==
    LET e1 == IF StrNEq(Str_none, mode, 4) THEN "NONE" ELSE e0
        e2 == IF StrNEq(Str_soft, mode, 4) THEN "SOFT" ELSE e1
        e3 == IF StrNEq(Str_hw, mode, 2) THEN "ON_HOST" ELSE e2
        e4 == IF StrNEq(Str_on_die, mode, 6) THEN "ON_DIE" ELSE e3
    IN  e4

\* A device property is [has |-> FALSE] when the firmware node lacks it.
NoProp == [has |-> FALSE]
Prop(v) == [has |-> TRUE, val |-> v]

\* nand_davinci_get_pdata.  dev is the platform device: [platdata, props,
\* keystone]; of is CONFIG_OF; alloc_ok is the outcome of devm_kzalloc.
\* The result is [err, pdata]: err # 0 stands for ERR_PTR(err).
nand_davinci_get_pdata(of, dev, alloc_ok) ==
    IF of /\ dev.platdata.null
    THEN IF ~alloc_ok THEN [err |-> -ENOMEM, pdata |-> NULL]
         ELSE IF ~dev.props.chipselect.has
         THEN [err |-> -EINVAL, pdata |-> Pdata0]
         ELSE LET q == dev.props
                  p1 == [Pdata0 EXCEPT !.core_chipsel = q.chipselect.val]
                  p2 == [p1 EXCEPT !.mask_ale =
                            IF q.mask_ale.has THEN q.mask_ale.val ELSE @]
                  p3 == [p2 EXCEPT !.mask_cle =
                            IF q.mask_cle.has THEN q.mask_cle.val ELSE @]
                  p4 == [p3 EXCEPT !.mask_chipsel =
                            IF q.mask_chipsel.has THEN q.mask_chipsel.val
                            ELSE @]
                  p5 == [p4 EXCEPT !.engine_type =
                            IF q.ecc_mode.has
                            THEN ModeEngine(q.ecc_mode.val, @) ELSE @]
                  p6 == [p5 EXCEPT !.ecc_bits =
                            IF q.ecc_bits.has THEN U8(q.ecc_bits.val)
                            ELSE @]
                  p7 == [p6 EXCEPT !.options =
                            IF q.buswidth.has /\ q.buswidth.val = 16
                            THEN @ \cup {"NAND_BUSWIDTH_16"} ELSE @]
                  p8 == [p7 EXCEPT !.options =
                            IF dev.keystone
                            THEN @ \cup {"NAND_NO_SUBPAGE_WRITE"} ELSE @]
              IN  [err |-> 0, pdata |-> p8]
    ELSE [err |-> 0, pdata |-> dev.platdata]

\* chip->ecc before the controller driver has configured it
Ecc0 ==
    [engine_type |-> "INVALID", placement |-> "UNKNOWN", algo |-> "UNKNOWN",
     calculate |-> "NULL", correct |-> "NULL", hwctl |-> "NULL",
     read_page |-> "NULL", bytes |-> 0, size |-> 0, strength |-> 0,
     options |-> {}]

\* the 4-bit and the 1-bit callbacks with their step geometry
Ecc4bit(e) ==
    [e EXCEPT !.calculate = "nand_davinci_calculate_4bit",
              !.correct = "nand_davinci_correct_4bit",
              !.hwctl = "nand_davinci_hwctl_4bit",
              !.bytes = 10,
              !.options = {"NAND_ECC_GENERIC_ERASED_CHECK"},
              !.algo = "BCH"]
\* the 1-bit callbacks of a mutated driver: the default six bytes a step
Ecc1bit_six_bytes(e) ==
    [e EXCEPT !.calculate = "nand_davinci_calculate_1bit",
              !.correct = "nand_davinci_correct_1bit",
              !.hwctl = "nand_davinci_hwctl_1bit",
              !.bytes = 6,
              !.algo = "HAMMING"]

Ecc1bit(e) ==
    [e EXCEPT !.calculate = "nand_davinci_calculate_1bit",
              !.correct = "nand_davinci_correct_1bit",
              !.hwctl = "nand_davinci_hwctl_1bit",
              !.bytes = 3,
              !.algo = "HAMMING"]

\* davinci_nand_attach_chip.  pdata is the platform data (never an error
\* pointer here: probe has returned on one), m is the mtd_info
\* [writesize, oobsize, ooblayout], chip is [ecc, options], busy is
\* ecc4_busy.  The result is [ret, pdata, mtd, chip, ecc4_busy].
davinci_nand_attach_chip(pdata, m, chip, busy) ==
    LET ecc1 == [chip.ecc EXCEPT !.engine_type = pdata.engine_type,
                                 !.placement = pdata.ecc_placement]
        same == [ret |-> 0, pdata |-> pdata, mtd |-> m,
                 chip |-> [chip EXCEPT !.ecc = ecc1], ecc4_busy |-> busy]
    IN  IF ecc1.engine_type \in {"NONE", "ON_DIE"}
        THEN [same EXCEPT !.pdata.ecc_bits = 0]
        ELSE IF ecc1.engine_type = "SOFT"
        THEN [same EXCEPT !.pdata.ecc_bits = 0,
                          !.chip.ecc.algo = "HAMMING"]
        ELSE IF ecc1.engine_type = "ON_HOST"
        THEN IF pdata.ecc_bits = 4
             THEN LET chunks == m.writesize \div 512
                      ecc2 == Ecc4bit(ecc1)
                      done == [ecc2 EXCEPT !.size = 512,
                                           !.strength = pdata.ecc_bits]
                  IN  IF chunks = 0 \/ m.oobsize < 16
                      THEN [same EXCEPT !.ret = -EINVAL]
                      ELSE IF busy
                      THEN [same EXCEPT !.ret = -EBUSY]
                      ELSE IF chunks = 1
                      THEN [same EXCEPT
                               !.ecc4_busy = TRUE,
                               !.chip.ecc = done,
                               !.mtd.ooblayout = "hwecc4_small_ooblayout_ops"]
                      ELSE IF chunks = 4 \/ chunks = 8
                      THEN [same EXCEPT
                               !.ecc4_busy = TRUE,
                               !.chip.ecc =
                                   [done EXCEPT !.read_page =
                                       "nand_read_page_hwecc_oob_first"],
                               !.mtd.ooblayout =
                                   IF "NAND_IS_BOOT_MEDIUM" \in chip.options
                                   THEN "hwecc4_large_ooblayout_ops"
                                   ELSE "nand_get_large_page_ooblayout"]
                      ELSE [same EXCEPT !.ret = -EIO,
                                        !.ecc4_busy = TRUE,
                                        !.chip.ecc = ecc2]
             ELSE [same EXCEPT
                      !.chip.ecc = [Ecc1bit(ecc1) EXCEPT
                                       !.size = 512,
                                       !.strength = pdata.ecc_bits]]
        ELSE [same EXCEPT !.ret = -EINVAL]

MASK_ALE == 8
MASK_CLE == 16

\* struct davinci_nand_info of a mutated driver: the two default masks
\* are taken for one another
Info_defaults_swapped(pdata, vaddr) ==
    [null |-> FALSE,
     is_readmode |-> FALSE,
     vaddr |-> vaddr,
     current_cs |-> vaddr,
     core_chipsel |-> pdata.core_chipsel,
     mask_chipsel |-> pdata.mask_chipsel,
     mask_ale |-> IF pdata.mask_ale # 0 THEN pdata.mask_ale ELSE MASK_CLE,
     mask_cle |-> IF pdata.mask_cle # 0 THEN pdata.mask_cle ELSE MASK_ALE]

\* struct davinci_nand_info as probe fills it in
Info(pdata, vaddr) ==
    [null |-> FALSE,
     is_readmode |-> FALSE,
     vaddr |-> vaddr,
     current_cs |-> vaddr,
     core_chipsel |-> pdata.core_chipsel,
     mask_chipsel |-> pdata.mask_chipsel,
     mask_ale |-> IF pdata.mask_ale # 0 THEN pdata.mask_ale ELSE MASK_ALE,
     mask_cle |-> IF pdata.mask_cle # 0 THEN pdata.mask_cle ELSE MASK_CLE]

\* nand_scan() as probe calls it: identification, attach_chip through the
\* controller ops, then nand_scan_tail.  scan is what the NAND core finds:
\* [err, writesize, oobsize, boot_medium, tail_err]; err is the error of
\* the identification, tail_err that of nand_scan_tail, 0 for none.
\* The result is that of attach_chip with ret the return value of
\* nand_scan, and attached telling whether attach_chip was called.
nand_scan(pdata, chip, scan, busy) ==
    LET m == [writesize |-> scan.writesize, oobsize |-> scan.oobsize,
              ooblayout |-> "NULL"]
        c == IF scan.boot_medium
             THEN [chip EXCEPT !.options = @ \cup {"NAND_IS_BOOT_MEDIUM"}]
             ELSE chip
        att == davinci_nand_attach_chip(pdata, m, c, busy)
    IN  IF scan.err # 0
        THEN [ret |-> scan.err, pdata |-> pdata, mtd |-> m, chip |-> chip,
              ecc4_busy |-> busy, attached |-> FALSE, att_ret |-> 0]
        ELSE [ret |-> IF att.ret # 0 THEN att.ret ELSE scan.tail_err,
              pdata |-> att.pdata, mtd |-> att.mtd, chip |-> att.chip,
              ecc4_busy |-> att.ecc4_busy, attached |-> TRUE,
              att_ret |-> att.ret]

\* a probe that returns before it has touched the hardware; pdata is what
\* nand_davinci_get_pdata has left in dev->platform_data
ProbeFails(err, pdata, fcr, busy) ==
    [ret |-> err, dev |-> NULL, pdata |-> pdata, platdata |-> pdata,
     nandfcr |-> fcr, ecc4_busy |-> busy, scanned |-> FALSE,
     attached |-> FALSE, att_ret |-> 0, att |-> NULL, registered |-> FALSE]

\* probe's test of the chipselect of a mutated driver: one too many
ChipselMissing_off_by_one(pdata) == pdata.core_chipsel > 4

\* "which external chipselect will we be managing?"
ChipselMissing(pdata) == pdata.core_chipsel > 3

\* nand_davinci_probe.  of is CONFIG_OF, dev the platform device, fcr and
\* busy are NANDFCR and ecc4_busy before the call, env what the kernel
\* answers: [alloc_ok, early, vaddr, scan, register_err], early being the
\* error of the first helper that fails between the allocation of info
\* and devm_clk_get_enabled, 0 if none does.
\* The result is [ret, dev, pdata, platdata, nandfcr, ecc4_busy, ...]: dev
\* is the bound device or NULL, pdata what nand_davinci_get_pdata gave,
\* platdata is dev->platform_data after the call, att the chip and mtd as
\* attach_chip left them.
nand_davinci_probe(of, dev, env, fcr, busy) ==
    LET got == nand_davinci_get_pdata(of, dev, env.alloc_ok)
        pdata == got.pdata
    IN  IF got.err # 0
        THEN ProbeFails(got.err, pdata, fcr, busy)
        ELSE IF pdata.null
        THEN ProbeFails(-ENODEV, pdata, fcr, busy)
        ELSE IF ChipselMissing(pdata)
        THEN ProbeFails(-ENODEV, pdata, fcr, busy)
        ELSE IF env.early # 0
        THEN ProbeFails(env.early, pdata, fcr, busy)
        ELSE LET info == Info(pdata, env.vaddr)
                 chip0 == [ecc |-> Ecc0, options |-> pdata.options,
                           maxchips |-> IF pdata.mask_chipsel # 0
                                        THEN 2 ELSE 1]
                 val == BitOr(fcr, BIT(info.core_chipsel))
                 sc == nand_scan(pdata, chip0, env.scan, busy)
                 ret == IF sc.ret < 0 THEN sc.ret ELSE env.register_err
             IN  [ret |-> IF ret < 0 THEN ret ELSE 0,
                  dev |-> IF ret < 0 THEN NULL
                          ELSE [null |-> FALSE, info |-> info,
                                mtd |-> sc.mtd, chip |-> sc.chip],
                  pdata |-> pdata,
                  platdata |-> sc.pdata,
                  nandfcr |-> val,
                  ecc4_busy |-> sc.ecc4_busy,
                  scanned |-> TRUE,
                  attached |-> sc.attached,
                  att_ret |-> sc.att_ret,
                  att |-> IF sc.attached
                          THEN [null |-> FALSE, mtd |-> sc.mtd,
                                chip |-> sc.chip]
                          ELSE NULL,
                  registered |-> sc.ret >= 0 /\ env.register_err >= 0]

\* ecc4_busy after nand_davinci_remove of the device d
nand_davinci_remove(d, busy) ==
    IF d.chip.ecc.placement = "INTERLEAVED" THEN FALSE ELSE busy

\* ---- the platform devices and the kernel's answers --------------------
NoProps ==
    [chipselect |-> NoProp, mask_ale |-> NoProp, mask_cle |-> NoProp,
     mask_chipsel |-> NoProp, ecc_mode |-> NoProp, ecc_bits |-> NoProp,
     buswidth |-> NoProp]

\* a device described by a board file
Board(engine, bits, placement, cs) ==
    [platdata |-> [Pdata0 EXCEPT !.engine_type = engine, !.ecc_bits = bits,
                                 !.ecc_placement = placement,
                                 !.core_chipsel = cs],
     props |-> NoProps, keystone |-> FALSE]

\* a device described by a firmware node
Node(cs, mode, bits) ==
    [platdata |-> NULL,
     props |-> [NoProps EXCEPT !.chipselect = cs, !.ecc_mode = mode,
                               !.ecc_bits = bits],
     keystone |-> FALSE]

EngineTypes == {"INVALID", "NONE", "ON_HOST", "ON_DIE", "SOFT"}
Placements == {"OOB", "INTERLEAVED"}

Str_hw_syndrome ==
    <<"h", "w", "_", "s", "y", "n", "d", "r", "o", "m", "e">>
Str_bch == <<"b", "c", "h">>
ModeProps ==
    {NoProp, Prop(Str_none), Prop(Str_soft), Prop(Str_hw),
     Prop(Str_hw_syndrome), Prop(Str_on_die), Prop(Str_bch)}

AllDevs ==
    {Board(e, b, pl, 0) : e \in EngineTypes, b \in {0, 1, 4},
                          pl \in Placements}
    \cup {Board("ON_HOST", 1, "OOB", cs) : cs \in {1, 3, 4, 200}}
    \cup {[Board("ON_HOST", 4, "OOB", 2) EXCEPT
             !.platdata.mask_ale = 2, !.platdata.mask_cle = 1,
             !.platdata.mask_chipsel = 16384]}
    \cup {Node(NoProp, Prop(Str_hw), Prop(4))}
    \cup {Node(Prop(0), m, b) : m \in ModeProps, b \in {NoProp, Prop(4)}}
    \cup {Node(Prop(5), Prop(Str_hw), Prop(1)),
          [Node(Prop(1), Prop(Str_hw), Prop(260)) EXCEPT
             !.props.buswidth = Prop(16), !.keystone = TRUE]}

VAddr == 2 * 16777216

Scan(w, o, boot) ==
    [err |-> 0, writesize |-> w, oobsize |-> o, boot_medium |-> boot,
     tail_err |-> 0]
Env(scan) ==
    [alloc_ok |-> TRUE, early |-> 0, vaddr |-> VAddr, scan |-> scan,
     register_err |-> 0]

Geometries ==
    {Scan(256, 8, FALSE), Scan(512, 8, FALSE), Scan(512, 16, FALSE),
     Scan(1024, 32, FALSE), Scan(2048, 64, FALSE), Scan(2048, 64, TRUE),
     Scan(4096, 128, TRUE), Scan(8192, 256, FALSE)}

AllEnvs ==
    {Env(g) : g \in Geometries}
    \cup {Env([g EXCEPT !.tail_err = -EINVAL]) : g \in Geometries}
    \cup {[Env(g) EXCEPT !.register_err = -ENOMEM] : g \in Geometries}
    \cup {Env([Scan(0, 0, FALSE) EXCEPT !.err = -ENODEV])}
    \cup {[Env(Scan(512, 16, FALSE)) EXCEPT !.early = e] :
             e \in {-ENOMEM, -EINVAL, -EADDRNOTAVAIL}}
    \cup {[Env(Scan(512, 16, FALSE)) EXCEPT !.alloc_ok = FALSE]}

\* the devices and answers of the long-running system: hardware ECC on two
\* chipselects
LifeDevs ==
    {Board("ON_HOST", b, pl, cs) : b \in {1, 4}, pl \in Placements,
                                   cs \in {0, 1}}
LifeEnvs ==
    {Env(Scan(512, 16, FALSE)), Env(Scan(1024, 32, FALSE)),
     [Env(Scan(2048, 64, FALSE)) EXCEPT !.register_err = -ENOMEM]}

NumDevs == 2
Devs == 1 .. NumDevs

NoCall == [op |-> "none"]

InitDrv ==
    /\ config_of \in BOOLEAN
    /\ ecc4_busy = FALSE
    /\ devs = [d \in Devs |-> NULL]
    /\ call = NoCall

\* the driver core binds the platform device pdev to the driver in slot d
Probe(d, pdev, env) ==
    /\ devs[d].null
    /\ LET r == nand_davinci_probe(config_of, pdev, env, nandfcr, ecc4_busy)
       IN  /\ nandfcr' = r.nandfcr
           /\ ecc4_busy' = r.ecc4_busy
           /\ devs' = [devs EXCEPT ![d] = r.dev]
           /\ call' = [op |-> "probe", slot |-> d, pdev |-> pdev,
                       env |-> env, fcr |-> nandfcr, busy |-> ecc4_busy,
                       out |-> r]
    /\ UNCHANGED config_of
    /\ UNCHANGED NotDrv

ProbeDev == \E d \in Devs, pdev \in LifeDevs, env \in LifeEnvs :
               Probe(d, pdev, env)

\* one probe of one device, whatever the device and the kernel's answers
ProbeOnce ==
    /\ call.op = "none"
    /\ \E pdev \in AllDevs, env \in AllEnvs : Probe(1, pdev, env)

\* the driver core unbinds the device in slot d
RemoveDev ==
    \E d \in Devs :
        /\ ~devs[d].null
        /\ ecc4_busy' = nand_davinci_remove(devs[d], ecc4_busy)
        /\ devs' = [devs EXCEPT ![d] = NULL]
        /\ call' = [op |-> "remove", slot |-> d, busy |-> ecc4_busy]
        /\ UNCHANGED <<config_of, nandfcr>>
        /\ UNCHANGED NotDrv

NextDrv == ProbeDev \/ RemoveDev
NextProbe == ProbeOnce \/ RemoveDev

\* ---- properties of attach_chip, probe and remove ----------------------
Callbacks4bit(ecc) ==
    /\ ecc.calculate = "nand_davinci_calculate_4bit"
    /\ ecc.correct = "nand_davinci_correct_4bit"
    /\ ecc.hwctl = "nand_davinci_hwctl_4bit"

Callbacks1bit(ecc) ==
    /\ ecc.calculate = "nand_davinci_calculate_1bit"
    /\ ecc.correct = "nand_davinci_correct_1bit"
    /\ ecc.hwctl = "nand_davinci_hwctl_1bit"

NoCallbacks(ecc) ==
    ecc.calculate = "NULL" /\ ecc.correct = "NULL" /\ ecc.hwctl = "NULL"

\* the bound devices that have the 4-bit callbacks
Holders == {d \in Devs : ~devs[d].null /\ Callbacks4bit(devs[d].chip.ecc)}

\* the last call was a probe that reached attach_chip
Attached == call.op = "probe" /\ call.out.attached

\* C1: at any time at most one bound device has the 4-bit callbacks, and an
\* attach that asks for ON_HOST with ecc_bits = 4 while ecc4_busy is set
\* returns -EBUSY and installs none of the 4-bit callbacks.
C1_MutualExclusion ==
    /\ Cardinality(Holders) <= 1
    /\ (/\ Attached
        /\ call.out.pdata.engine_type = "ON_HOST"
        /\ call.out.pdata.ecc_bits = 4
        /\ call.busy)
       => /\ call.out.att_ret = -EBUSY
          /\ NoCallbacks(call.out.att.chip.ecc)

\* what attach_chip does for the engine types NONE, ON_DIE, SOFT, for
\* ON_HOST with ecc_bits other than 4, and for any other engine type
AttachOtherLegs ==
    LET pd == call.out.pdata
        ecc == call.out.att.chip.ecc
    IN  /\ pd.engine_type \in {"NONE", "ON_DIE", "SOFT"}
           => /\ call.out.att_ret = 0
              /\ call.out.platdata.ecc_bits = 0
              /\ NoCallbacks(ecc)
              /\ pd.engine_type = "SOFT" => ecc.algo = "HAMMING"
        /\ (pd.engine_type = "ON_HOST" /\ pd.ecc_bits # 4)
           => /\ call.out.att_ret = 0
              /\ Callbacks1bit(ecc)
              /\ ecc.bytes = 3 /\ ecc.size = 512 /\ ecc.algo = "HAMMING"
        /\ pd.engine_type \notin {"NONE", "ON_DIE", "SOFT", "ON_HOST"}
           => call.out.att_ret = -EINVAL

Installed4bit(ecc) ==
    /\ Callbacks4bit(ecc)
    /\ ecc.bytes = 10 /\ ecc.size = 512 /\ ecc.algo = "BCH"

\* C5 as the claim has it: ON_HOST with ecc_bits = 4 installs the 4-bit
\* callbacks with 10 ECC bytes per 512-byte step and the BCH algorithm,
\* whatever the chip and the state of the engine.
C5_AttachAlways4bit ==
    Attached =>
        /\ AttachOtherLegs
        /\ (/\ call.out.pdata.engine_type = "ON_HOST"
            /\ call.out.pdata.ecc_bits = 4)
           => Installed4bit(call.out.att.chip.ecc)

\* C5: attach_chip configures ECC from the platform data.  NONE, ON_DIE and
\* SOFT force ecc_bits to 0 and install no callbacks (SOFT selects
\* Hamming); ON_HOST with ecc_bits other than 4 installs the 1-bit
\* callbacks, 3 bytes per 512-byte step, Hamming; any other engine type
\* returns -EINVAL.  ON_HOST with ecc_bits = 4 returns -EINVAL for a page
\* below 512 bytes or an OOB below 16 bytes, else -EBUSY when ecc4_busy is
\* set, both without installing anything; else it takes the engine and
\* installs the 4-bit callbacks with 10 bytes and BCH, returning 0 with a
\* 512-byte step when the page has 1, 4 or 8 steps of 512 bytes and -EIO
\* when it has not.
C5_AttachConfiguresEcc ==
    Attached =>
        /\ AttachOtherLegs
        /\ (/\ call.out.pdata.engine_type = "ON_HOST"
            /\ call.out.pdata.ecc_bits = 4)
           => LET w == call.env.scan.writesize
                  o == call.env.scan.oobsize
                  ecc == call.out.att.chip.ecc
              IN  /\ call.out.att_ret =
                         IF w < 512 \/ o < 16 THEN -EINVAL
                         ELSE IF call.busy THEN -EBUSY
                         ELSE IF w \div 512 \in {1, 4, 8} THEN 0
                         ELSE -EIO
                  /\ call.out.att_ret = 0 => Installed4bit(ecc)
                  /\ call.out.att_ret \in {0, -EIO}
                     => /\ Callbacks4bit(ecc)
                        /\ ecc.bytes = 10 /\ ecc.algo = "BCH"
                        /\ call.out.ecc4_busy
                  /\ call.out.att_ret \in {-EINVAL, -EBUSY}
                     => NoCallbacks(ecc) /\ call.out.ecc4_busy = call.busy

C5_Witness ==
    /\ Attached
    /\ call.out.pdata.engine_type = "ON_HOST"
    /\ call.out.pdata.ecc_bits = 4
    /\ call.out.att_ret = 0
    /\ Installed4bit(call.out.att.chip.ecc)
    /\ call.out.ecc4_busy /\ ~call.busy

\* the device of the last probe has no platform data of its own
NoPlatdata == call.pdev.platdata.null

\* the chipselect the device of the last probe names, -1 when it names none
ChipselOf ==
    IF ~NoPlatdata THEN call.pdev.platdata.core_chipsel
    ELSE IF config_of /\ call.env.alloc_ok /\ call.pdev.props.chipselect.has
    THEN call.pdev.props.chipselect.val
    ELSE -1

\* the last probe has left the hardware and the MTD core alone
Untouched ==
    /\ nandfcr = call.fcr
    /\ ~call.out.scanned
    /\ ~call.out.registered
    /\ devs[call.slot].null

\* C6 as the claim has it: a probe of a device without platform data, or
\* with core_chipsel > 3, returns -ENODEV and touches nothing.
C6_NoPlatdataIsENODEV ==
    (call.op = "probe" /\ (NoPlatdata \/ ChipselOf > 3))
    => call.out.ret = -ENODEV /\ Untouched

\* C6: probe returns -ENODEV, without a write to NANDFCR, a scan or an MTD
\* registration, when core_chipsel > 3 or when the device has no platform
\* data and the driver is built without CONFIG_OF.  Built with CONFIG_OF,
\* the platform data is made from the device properties, and the probe of
\* a device without platform data returns -ENOMEM when the allocation
\* fails and -EINVAL when "ti,davinci-chipselect" is missing, touching
\* nothing either.
C6_ProbeRejects ==
    call.op = "probe" =>
        /\ ((NoPlatdata /\ ~config_of) \/ ChipselOf > 3)
           => call.out.ret = -ENODEV /\ Untouched
        /\ (NoPlatdata /\ config_of /\ ~call.env.alloc_ok)
           => call.out.ret = -ENOMEM /\ Untouched
        /\ (/\ NoPlatdata /\ config_of /\ call.env.alloc_ok
            /\ ~call.pdev.props.chipselect.has)
           => call.out.ret = -EINVAL /\ Untouched

C6_Witness ==
    /\ call.op = "probe"
    /\ ChipselOf > 3
    /\ call.fcr # 0
    /\ call.out.ret = -ENODEV
    /\ Untouched

(***************************************************************************)
(* exec_op: the instructions of a NAND operation on the bus.               *)
(***************************************************************************)
\* An instruction is [type, delay_ns] with, by type, opcode; addrs; or
\* buf (the buffer's address), len and force_8bit; or timeout_ms.
\* A bus access is [instr, kind, addr, val]: the index of the instruction
\* it belongs to, "iowrite8", the address and the byte; or, for a block
\* transfer, the accessor ("ioread8_rep" ..) with val the repeat count;
\* or "readl" for the dummy read before a delay.

\* a 32-bit product is kept as two 16-bit halves
Mul32(a, b) ==
    LET lo == (a % 65536) * b
        hi == (a \div 65536) * b + lo \div 65536
    IN  [hi |-> hi % 65536, lo |-> lo % 65536]

\* nand_davinci_data_in / nand_davinci_data_out: the accessor and the
\* repeat count for a buffer at address buf of len bytes; dir names the
\* 8-, 16- and 32-bit accessors of the direction
DataAccess(dir, buf, len, force_8bit) ==
    LET alignment == BitAnd(BitOr(buf, len), 3)
    IN  IF force_8bit \/ BitAnd(alignment, 1) # 0
        THEN [kind |-> dir[1], val |-> len]
        ELSE IF BitAnd(alignment, 3) # 0
        THEN [kind |-> dir[2], val |-> Shr(len, 1)]
        ELSE [kind |-> dir[3], val |-> Shr(len, 2)]

nand_davinci_data_in(inf, i, buf, len, force_8bit) ==
    LET a == DataAccess(<<"ioread8_rep", "ioread16_rep", "ioread32_rep">>,
                        buf, len, force_8bit)
    IN  <<[instr |-> i, kind |-> a.kind, addr |-> inf.current_cs,
           val |-> a.val]>>

nand_davinci_data_out(inf, i, buf, len, force_8bit) ==
    LET a == DataAccess(<<"iowrite8_rep", "iowrite16_rep", "iowrite32_rep">>,
                        buf, len, force_8bit)
    IN  <<[instr |-> i, kind |-> a.kind, addr |-> inf.current_cs,
           val |-> a.val]>>

\* davinci_nand_exec_instr on instruction number i.  ready tells whether
\* the poll of NANDFSR sees bit 0 set before its time is up; a poll with
\* timeout_us = 0 has no time limit.  The result is [ret, io], io being
\* the bus accesses made.
davinci_nand_exec_instr(inf, instr, i, ready) ==
    LET acc == IF instr.type = "NAND_OP_CMD_INSTR"
               THEN <<[instr |-> i, kind |-> "iowrite8",
                       addr |-> inf.current_cs + inf.mask_cle,
                       val |-> instr.opcode]>>
               ELSE IF instr.type = "NAND_OP_ADDR_INSTR"
               THEN [k \in 1 .. Len(instr.addrs) |->
                        [instr |-> i, kind |-> "iowrite8",
                         addr |-> inf.current_cs + inf.mask_ale,
                         val |-> instr.addrs[k]]]
               ELSE IF instr.type = "NAND_OP_DATA_IN_INSTR"
               THEN nand_davinci_data_in(inf, i, instr.buf, instr.len,
                                         instr.force_8bit)
               ELSE IF instr.type = "NAND_OP_DATA_OUT_INSTR"
               THEN nand_davinci_data_out(inf, i, instr.buf, instr.len,
                                          instr.force_8bit)
               ELSE <<>>
        dummy == IF instr.delay_ns # 0
                 THEN <<[instr |-> i, kind |-> "readl", addr |-> 0,
                         val |-> 0]>>
                 ELSE <<>>
    IN  IF instr.type = "NAND_OP_WAITRDY_INSTR" /\ ~ready
        THEN [ret |-> -ETIMEDOUT, io |-> <<>>]
        ELSE [ret |-> 0, io |-> acc \o dummy]

\* the poll of a WAITRDY instruction can run out of time
CanTimeOut(instr) ==
    /\ instr.type = "NAND_OP_WAITRDY_INSTR"
    /\ Mul32(instr.timeout_ms, 1000) # [hi |-> 0, lo |-> 0]

\* exec_op's loop of a mutated driver: it tests the error the wrong way
InstrFailed_wrong_sign(ret) == ret > 0

\* "if (ret) return ret;"
InstrFailed(ret) == ret # 0

\* ---- the operations the NAND core asks for ---------------------------
MaxInstrs == 2
MaxAddrs == 2

Cmd(opcode, delay) ==
    [type |-> "NAND_OP_CMD_INSTR", opcode |-> opcode, delay_ns |-> delay]
Addr(addrs) ==
    [type |-> "NAND_OP_ADDR_INSTR", addrs |-> addrs, delay_ns |-> 0]
DataIn(buf, len, force) ==
    [type |-> "NAND_OP_DATA_IN_INSTR", buf |-> buf, len |-> len,
     force_8bit |-> force, delay_ns |-> 0]
DataOut(buf, len, force) ==
    [type |-> "NAND_OP_DATA_OUT_INSTR", buf |-> buf, len |-> len,
     force_8bit |-> force, delay_ns |-> 0]
WaitRdy(ms) ==
    [type |-> "NAND_OP_WAITRDY_INSTR", timeout_ms |-> ms, delay_ns |-> 0]

AddrByte(k) == (k * 165) % 256
AddrSeqs ==
    {[k \in 1 .. n |-> AddrByte(k)] : n \in 0 .. MaxAddrs}
    \cup {[k \in 1 .. MaxAddrs |-> AddrByte(MaxAddrs + 1 - k)]}

Instrs ==
    {Cmd(0, 0), Cmd(48, 100)}
    \cup {Addr(a) : a \in AddrSeqs}
    \cup {DataIn(4096, 6, FALSE), DataIn(4096, 8, TRUE),
          DataOut(4096, 512, FALSE)}
    \cup {WaitRdy(0), WaitRdy(400), WaitRdy(536870912)}

Ops ==
    {[cs |-> cs, instrs |-> q] :
        cs \in {0, 1},
        q \in UNION {[1 .. n -> Instrs] : n \in 0 .. MaxInstrs}}

NoOp == [cs |-> 0, instrs |-> <<>>, check_only |-> TRUE]

\* the platform data of the chip: default masks, device-tree masks, a
\* second chipselect
OpPdatas ==
    {Pdata0,
     [Pdata0 EXCEPT !.mask_ale = 8192, !.mask_cle = 16384],
     [Pdata0 EXCEPT !.mask_cle = 2, !.mask_chipsel = 16384],
     [Pdata0 EXCEPT !.mask_ale = 16, !.mask_chipsel = 16384]}

\* the chip has been probed and no operation is under way
InitOp ==
    /\ op_pdata \in OpPdatas
    /\ nand_info = Info(op_pdata, VAddr)
    /\ nand_op = NoOp
    /\ instr_i = 0 /\ pc_op = "idle" /\ ret_op = 0
    /\ executed = <<>> /\ failed = 0 /\ io = <<>>

\* exec_op of a mutated driver: it selects the chip before it looks at
\* check_only
ExecOp_selects_first ==
    /\ pc_op = "idle"
    /\ \E o \in Ops, check_only \in BOOLEAN :
          /\ nand_op' = [cs |-> o.cs, instrs |-> o.instrs,
                         check_only |-> check_only]
          /\ nand_info' =
                [nand_info EXCEPT !.current_cs =
                    nand_info.vaddr + o.cs * nand_info.mask_chipsel]
          /\ IF check_only
             THEN /\ pc_op' = "done"
                  /\ UNCHANGED instr_i
             ELSE /\ instr_i' = 1
                  /\ pc_op' = IF Len(o.instrs) = 0 THEN "done" ELSE "run"
    /\ ret_op' = 0
    /\ executed' = <<>> /\ failed' = 0 /\ io' = <<>>
    /\ UNCHANGED op_pdata
    /\ UNCHANGED NotOp

\* davinci_nand_exec_op up to the first instruction
ExecOp ==
    /\ pc_op = "idle"
    /\ \E o \in Ops, check_only \in BOOLEAN :
          /\ nand_op' = [cs |-> o.cs, instrs |-> o.instrs,
                         check_only |-> check_only]
          /\ IF check_only
             THEN /\ pc_op' = "done"
                  /\ UNCHANGED <<nand_info, instr_i>>
             ELSE /\ nand_info' =
                        [nand_info EXCEPT !.current_cs =
                            nand_info.vaddr
                            + o.cs * nand_info.mask_chipsel]
                  /\ instr_i' = 1
                  /\ pc_op' = IF Len(o.instrs) = 0 THEN "done" ELSE "run"
    /\ ret_op' = 0
    /\ executed' = <<>> /\ failed' = 0 /\ io' = <<>>
    /\ UNCHANGED op_pdata
    /\ UNCHANGED NotOp

\* one turn of exec_op's loop
ExecInstr ==
    /\ pc_op = "run"
    /\ \E ready \in BOOLEAN :
          LET instr == nand_op.instrs[instr_i]
              r == davinci_nand_exec_instr(nand_info, instr, instr_i, ready)
          IN  /\ ready \/ CanTimeOut(instr)
              /\ executed' = Append(executed, instr_i)
              /\ io' = io \o r.io
              /\ failed' = IF r.ret # 0 THEN instr_i ELSE failed
              /\ IF InstrFailed(r.ret)
                 THEN /\ ret_op' = r.ret
                      /\ pc_op' = "done"
                      /\ UNCHANGED instr_i
                 ELSE /\ instr_i' = instr_i + 1
                      /\ pc_op' = IF instr_i = Len(nand_op.instrs)
                                  THEN "done" ELSE "run"
                      /\ ret_op' = 0
    /\ UNCHANGED <<op_pdata, nand_info, nand_op>>
    /\ UNCHANGED NotOp

\* the NAND core has the result and is ready for its next operation
ExecReturn ==
    /\ pc_op = "done"
    /\ pc_op' = "idle"
    /\ nand_op' = NoOp
    /\ instr_i' = 0 /\ ret_op' = 0
    /\ executed' = <<>> /\ failed' = 0 /\ io' = <<>>
    /\ UNCHANGED <<op_pdata, nand_info>>
    /\ UNCHANGED NotOp

NextOp == ExecOp \/ ExecInstr \/ ExecReturn

\* ---- properties of exec_op --------------------------------------------
\* the byte writes of instruction number i, in order
ByteWrites(i) ==
    LET Mine(e) == e.instr = i /\ e.kind = "iowrite8"
    IN  SelectSeq(io, Mine)

\* exec_op is at work on, or has returned from, an operation it executes
Executing == pc_op \in {"run", "done"} /\ ~nand_op.check_only

\* C9: every command byte is written to current_cs + mask_cle and every
\* address byte, in the order given, to current_cs + mask_ale, where
\* current_cs = vaddr + cs * mask_chipsel and the masks are those of the
\* platform data when non-zero, else 0x08 (ALE) and 0x10 (CLE); and no
\* other byte is written.
C9_CmdAddrBytes ==
    Executing =>
        LET cur == VAddr + nand_op.cs * op_pdata.mask_chipsel
            ale == IF op_pdata.mask_ale # 0 THEN op_pdata.mask_ale ELSE 8
            cle == IF op_pdata.mask_cle # 0 THEN op_pdata.mask_cle ELSE 16
        IN  /\ nand_info.current_cs = cur
            /\ \A k \in 1 .. Len(executed) :
                  LET i == executed[k]
                      ins == nand_op.instrs[i]
                  IN  /\ ins.type = "NAND_OP_CMD_INSTR"
                         => ByteWrites(i) =
                               <<[instr |-> i, kind |-> "iowrite8",
                                  addr |-> cur + cle, val |-> ins.opcode]>>
                      /\ ins.type = "NAND_OP_ADDR_INSTR"
                         => ByteWrites(i) =
                               [n \in 1 .. Len(ins.addrs) |->
                                   [instr |-> i, kind |-> "iowrite8",
                                    addr |-> cur + ale,
                                    val |-> ins.addrs[n]]]
            /\ \A n \in 1 .. Len(io) :
                  io[n].kind = "iowrite8"
                  => /\ \E k \in 1 .. Len(executed) : executed[k] = io[n].instr
                     /\ nand_op.instrs[io[n].instr].type
                           \in {"NAND_OP_CMD_INSTR", "NAND_OP_ADDR_INSTR"}

C9_Witness ==
    /\ pc_op = "done" /\ ~nand_op.check_only /\ ret_op = 0
    /\ nand_op.cs = 1
    /\ op_pdata.mask_chipsel # 0 /\ op_pdata.mask_ale = 0
    /\ op_pdata.mask_cle # 0
    /\ Len(nand_op.instrs) = 2
    /\ nand_op.instrs[1].type = "NAND_OP_CMD_INSTR"
    /\ nand_op.instrs[2].type = "NAND_OP_ADDR_INSTR"
    /\ Len(nand_op.instrs[2].addrs) >= 2
    /\ Len(io) >= 3

\* the instructions were taken in array order, a failure ended the call
\* with its error, and 0 is returned only after the last instruction
InOrder ==
    Executing =>
        /\ executed = [k \in 1 .. Len(executed) |-> k]
        /\ Len(executed) <= Len(nand_op.instrs)
        /\ failed # 0
           => /\ pc_op = "done"
              /\ ret_op = -ETIMEDOUT
              /\ executed[Len(executed)] = failed
              /\ nand_op.instrs[failed].type = "NAND_OP_WAITRDY_INSTR"
              /\ \A n \in 1 .. Len(io) : io[n].instr < failed
        /\ (pc_op = "done" /\ ret_op # 0) => failed # 0
        /\ (pc_op = "done" /\ ret_op = 0)
           => Len(executed) = Len(nand_op.instrs)

\* a step executes the next instruction only, and none once exec_op has
\* returned
NoneAfterReturn ==
    /\ (pc_op = "run" /\ executed' # executed)
       => executed' = Append(executed, Len(executed) + 1)
    /\ (pc_op = "done" /\ pc_op' # "idle")
       => executed' = executed /\ io' = io

\* C10: exec_op with check_only false executes the instructions in array
\* order, each at most once; when a WAITRDY instruction times out exec_op
\* returns that error at once and executes no later instruction; it
\* returns 0 only after all ninstrs instructions have been executed.
C10_ExecInOrder == [](InOrder) /\ [][NoneAfterReturn]_vars

\* exec_op has returned from a call with check_only set
CheckedOnly == pc_op = "done" /\ nand_op.check_only

\* a call with check_only set has made no access and returned 0
NothingDone ==
    CheckedOnly =>
        /\ ret_op = 0
        /\ io = <<>>
        /\ executed = <<>> /\ failed = 0

\* a call with check_only set returns at once and leaves info as it was
InfoKept ==
    (pc_op = "idle" /\ pc_op' # "idle" /\ nand_op'.check_only)
    => /\ pc_op' = "done"
       /\ ret_op' = 0
       /\ nand_info' = nand_info
       /\ io' = <<>>

\* C11: exec_op called with check_only true returns 0 for every operation
\* and changes nothing: no register or data-port access is made and
\* info->current_cs stays as it was.
C11_CheckOnlyNoEffect == [](NothingDone) /\ [][InfoKept]_vars

\* the checked operation names another chip than the one selected, and has
\* instructions
C11_Witness ==
    /\ CheckedOnly
    /\ Len(nand_op.instrs) = 2
    /\ nand_info.current_cs
          # nand_info.vaddr + nand_op.cs * nand_info.mask_chipsel
    /\ ret_op = 0 /\ io = <<>>

C10_Witness ==
    /\ pc_op = "done" /\ ~nand_op.check_only
    /\ ret_op = -ETIMEDOUT
    /\ failed = 1
    /\ Len(nand_op.instrs) = 2
    /\ Len(executed) = 1

(***************************************************************************)
(* Specifications.  A machine that is not the one specified stays idle.    *)
(***************************************************************************)
\*SPECS-BEGIN
Idle1 ==
    /\ dat = <<>> /\ dat_in = <<>> /\ read_ecc = <<>> /\ calc_ecc = <<>>
    /\ ecc_size = 0 /\ f1ecc = 0 /\ ret1 = 0 /\ pc1 = "idle"

IdleOob ==
    /\ mtd = [writesize |-> 0, oobsize |-> 0] /\ ecc_total = 0
    /\ oob_fn = "none" /\ oob_section = 0 /\ oob_ret = 0
    /\ oobregion = [offset |-> 0, length |-> 0]

Idle4 ==
    /\ hwctl_mode = -1 /\ seen_busy = FALSE /\ timed_out = FALSE
    /\ is_readmode = FALSE /\ core_chipsel = 0 /\ nandfcr = 0
    /\ ecc_reg = <<>> /\ ecc_code = <<>> /\ code_odd = 0 /\ raw_ecc = <<>>
    /\ ecc_load = <<>> /\ data = <<>> /\ ecc_state = 0 /\ fsr = 0
    /\ err_reg = NoErrReg /\ last4 = "none" /\ ret4 = 0 /\ pc4 = "off"

IdleOp ==
    /\ op_pdata = Pdata0 /\ nand_info = NULL /\ nand_op = NoOp
    /\ instr_i = 0 /\ pc_op = "idle" /\ ret_op = 0
    /\ executed = <<>> /\ failed = 0 /\ io = <<>>

IdleDrv ==
    /\ config_of = FALSE /\ ecc4_busy = FALSE
    /\ devs = [d \in Devs |-> NULL] /\ call = NoCall

InitEcc1 == Init1 /\ IdleOob /\ Idle4 /\ IdleDrv /\ IdleOp
SpecEcc1 == InitEcc1 /\ [][Next1]_vars

InitLayout == InitOob /\ Idle1 /\ Idle4 /\ IdleDrv /\ IdleOp
SpecOob == InitLayout /\ [][NextOob]_vars

InitEcc4 == Init4 /\ Idle1 /\ IdleOob /\ IdleDrv /\ IdleOp
SpecEcc4 == InitEcc4 /\ [][Next4]_vars

\* the driver with its devices coming and going
InitLife == InitDrv /\ Idle1 /\ IdleOob /\ Idle4 /\ IdleOp
Spec == InitLife /\ [][NextDrv]_vars

\* one probe, from any state of the driver's globals and of NANDFCR
InitProbe ==
    /\ Idle1 /\ IdleOob /\ IdleOp
    /\ hwctl_mode = -1 /\ seen_busy = FALSE /\ timed_out = FALSE
    /\ is_readmode = FALSE /\ core_chipsel = 0
    /\ nandfcr \in {0, 1, 16 + 2}
    /\ ecc_reg = <<>> /\ ecc_code = <<>> /\ code_odd = 0 /\ raw_ecc = <<>>
    /\ ecc_load = <<>> /\ data = <<>> /\ ecc_state = 0 /\ fsr = 0
    /\ err_reg = NoErrReg /\ last4 = "none" /\ ret4 = 0 /\ pc4 = "off"
    /\ config_of \in BOOLEAN
    /\ ecc4_busy \in BOOLEAN
    /\ devs = [d \in Devs |-> NULL]
    /\ call = NoCall
SpecProbe == InitProbe /\ [][NextProbe]_vars

\* the operations on one probed chip
InitExec == InitOp /\ Idle1 /\ IdleOob /\ Idle4 /\ IdleDrv
SpecOp == InitExec /\ [][NextOp]_vars
\*SPECS-END

====
